---- MODULE Spec2Model ----
(***************************************************************************)
(* Ledger consistency of eta-api: the post_save / post_delete receivers of  *)
(* apps/transactions/signals.py keep Account.balance and                    *)
(* Budget.current_expense in step with the Transaction table.  The model    *)
(* covers the receivers, the ORM calls that dispatch them (Model.save,      *)
(* Model.delete), the TransactionViewSet requests that trigger them, the    *)
(* same requests executed statement by statement by concurrent workers,     *)
(* and the process_recurring_transactions command with the                  *)
(* RecurringTransactionViewSet requests that feed it.                       *)
(* Amounts are integers (the DecimalField values of the scenarios), dates   *)
(* are day numbers.                                                         *)
(***************************************************************************)
EXTENDS Integers, FiniteSets, Sequences, TLC

\* ---------------------------------------------------------------- bounds
\* full-payload updates (the payload names the account) served in one behaviour
MaxFullUpdates == 1

Users == {"u1", "u2"}
AccountIds == {"a1", "a2", "a3"}
CategoryIds == {"Groceries", "Entertainment"}
NoCategory == "none"
BudgetIds == {"b1", "b2", "b3", "b4"}
Amounts == {50, 80}
\* primary keys of the ledger entries stored at one time
Pks == {1, 2}

\* Transaction.TRANSACTION_TYPE_CHOICES
TRANSACTION_TYPE_CHOICES == {"income", "expense"}

VARIABLES
    transactions,            \* Transaction table: pk -> row
    accounts,                \* Account table: id -> [user, balance]
    budgets,                 \* Budget table: id -> [user, category, start_date, end_date, current_expense]
    transaction_old_values,  \* the module-level dict _transaction_old_values
    response,                \* what the view returned for the last request
    failed,                  \* the request whose aggregate step raised, "none" so far
    full_updates,            \* number of full-payload updates served
    procs,                   \* worker -> the statement it executes next and its local variables
    recurring,               \* RecurringTransaction table: pk -> row
    stdout                   \* what the last process_recurring_transactions run reported

vars == <<transactions, accounts, budgets, transaction_old_values, response, failed, full_updates,
          procs, recurring, stdout>>

\* The three tables and the scratch dict, threaded through a handler.
Store == [transactions |-> transactions, accounts |-> accounts,
          budgets |-> budgets, old_values |-> transaction_old_values]

\* ------------------------------------------------------- injected faults
\* point: which statement raises; budget: the budget whose recompute raises;
\* aborts: the raising statement also poisons the enclosing atomic block.
NoFault == [point |-> "none", budget |-> "none", aborts |-> FALSE]
Faults ==
    {NoFault}
    \cup {[point |-> p, budget |-> "none", aborts |-> FALSE] : p \in {"old_account", "account"}}
    \cup {[point |-> "budget", budget |-> b, aborts |-> x] : b \in BudgetIds, x \in BOOLEAN}

\* ------------------------------------------------------------ signals.py
RECURSIVE SumAmount(_, _)
SumAmount(txs, S) ==
    IF S = {} THEN 0
    ELSE LET p == CHOOSE q \in S : TRUE
         IN txs[p].amount + SumAmount(txs, S \ {p})

\* the window query without its user filter
total_expense_all_users(txs, budget) ==
    SumAmount(txs, {p \in DOMAIN txs :
                      /\ txs[p].category = budget.category
                      /\ txs[p].type = "expense"
                      /\ txs[p].date >= budget.start_date
                      /\ txs[p].date <= budget.end_date})

\* the window query with end_date__gt in place of end_date__gte
total_expense_open_end(txs, budget) ==
    SumAmount(txs, {p \in DOMAIN txs :
                      /\ txs[p].user = budget.user
                      /\ txs[p].category = budget.category
                      /\ txs[p].type = "expense"
                      /\ txs[p].date >= budget.start_date
                      /\ txs[p].date < budget.end_date})

\* the window query without its type="expense" filter
total_expense_all_types(txs, budget) ==
    SumAmount(txs, {p \in DOMAIN txs :
                      /\ txs[p].user = budget.user
                      /\ txs[p].category = budget.category
                      /\ txs[p].date >= budget.start_date
                      /\ txs[p].date <= budget.end_date})

\* Transaction.objects.filter(...).aggregate(total=Sum("amount"))["total"] or Decimal('0')
total_expense(txs, budget) ==
    SumAmount(txs, {p \in DOMAIN txs :
                      /\ txs[p].user = budget.user
                      /\ txs[p].category = budget.category
                      /\ txs[p].type = "expense"
                      /\ txs[p].date >= budget.start_date
                      /\ txs[p].date <= budget.end_date})

\* recalculate_budget_expense: the row written for budget b; an exception
\* is logged and the row is left as it was.
recalculate_budget_expense(db, b, fault) ==
    IF fault.point = "budget" /\ fault.budget = b
    THEN db.budgets[b]
    ELSE [db.budgets[b] EXCEPT !.current_expense = total_expense(db.transactions, db.budgets[b])]

\* the budget queryset cut down to one row, as .first() would
matching_budgets_first(db, user, category, date) ==
    LET rows == {b \in DOMAIN db.budgets :
                    /\ db.budgets[b].user = user
                    /\ db.budgets[b].category = category
                    /\ db.budgets[b].start_date <= date
                    /\ db.budgets[b].end_date >= date}
    IN  IF rows = {} THEN {} ELSE {CHOOSE b \in rows : TRUE}

\* the budget queryset without its two date filters
matching_budgets_any_date(db, user, category, date) ==
    {b \in DOMAIN db.budgets :
        /\ db.budgets[b].user = user
        /\ db.budgets[b].category = category}

\* Budget.objects.filter(user=, category=, start_date__lte=date, end_date__gte=date)
matching_budgets(db, user, category, date) ==
    {b \in DOMAIN db.budgets :
        /\ db.budgets[b].user = user
        /\ db.budgets[b].category = category
        /\ db.budgets[b].start_date <= date
        /\ db.budgets[b].end_date >= date}

\* for budget in <queryset>: recalculate_budget_expense(budget)
recalculate_all(db, targets, fault) ==
    [db EXCEPT !.budgets = [b \in DOMAIN db.budgets |->
        IF b \in targets THEN recalculate_budget_expense(db, b, fault) ELSE db.budgets[b]]]

update_budgets_for_transaction(db, t, fault) ==
    recalculate_all(db, matching_budgets(db, t.user, t.category, t.date), fault)

\* the two branches of the balance update exchanged
apply_to_balance_swapped(balance, type, amount) ==
    IF type = "income" THEN balance - amount
    ELSE IF type = "expense" THEN balance + amount
    ELSE balance

\* account.balance += amount (income) / -= amount (expense)
apply_to_balance(balance, type, amount) ==
    IF type = "income" THEN balance + amount
    ELSE IF type = "expense" THEN balance - amount
    ELSE balance

\* the revert step left out: the old account keeps the old entry's effect
revert_from_balance_skipped(balance, type, amount) == balance

\* old_account.balance -= amount (income) / += amount (expense)
revert_from_balance(balance, type, amount) ==
    IF type = "income" THEN balance - amount
    ELSE IF type = "expense" THEN balance + amount
    ELSE balance

\* instance.account: the related object cached on the instance when one was
\* assigned before save(), otherwise a query at the time of the access.
instance_account(db, instance) ==
    IF instance.account_cache.loaded
    THEN instance.account_cache.balance
    ELSE db.accounts[instance.account].balance

\* the budgets a categorized expense makes a receiver recompute (used to
\* tell whether an injected budget fault is reached)
expense_targets(db, user, type, category, date) ==
    IF type = "expense" /\ category # NoCategory
    THEN matching_budgets(db, user, category, date)
    ELSE {}

\* @receiver(pre_save): remember the stored row of an entry that has a pk
store_old_transaction_values(db, instance) ==
    IF instance.pk \in DOMAIN db.transactions
    THEN [db EXCEPT !.old_values =
            (instance.pk :> [amount |-> db.transactions[instance.pk].amount,
                             type |-> db.transactions[instance.pk].type,
                             account_id |-> db.transactions[instance.pk].account,
                             category_id |-> db.transactions[instance.pk].category,
                             date |-> db.transactions[instance.pk].date]) @@ db.old_values]
    ELSE db

\* handle_transaction_save, created branch
save_created(db, instance, fault) ==
    LET db1 == [db EXCEPT !.accounts[instance.account].balance =
                    apply_to_balance(instance_account(db, instance), instance.type, instance.amount)]
        targets == expense_targets(db1, instance.user, instance.type, instance.category, instance.date)
    IN  IF fault.point = "account"
        THEN [db |-> db, failed |-> TRUE]
        ELSE [db |-> IF instance.type = "expense" /\ instance.category # NoCategory
                     THEN update_budgets_for_transaction(db1, instance, fault)
                     ELSE db1,
              failed |-> fault.point = "budget" /\ fault.budget \in targets]

\* handle_transaction_save, update branch: revert old, apply new
save_updated(db, instance, fault) ==
    IF instance.pk \notin DOMAIN db.old_values
    THEN [db |-> db, failed |-> FALSE]
    ELSE
    LET old_values == db.old_values[instance.pk]
        db1 == [db EXCEPT !.accounts[old_values.account_id].balance =
                    revert_from_balance(db.accounts[old_values.account_id].balance,
                                        old_values.type, old_values.amount)]
        db2 == [db1 EXCEPT !.accounts[instance.account].balance =
                    apply_to_balance(instance_account(db1, instance), instance.type, instance.amount)]
        old_budgets == IF old_values.type = "expense"
                       THEN matching_budgets(db2, instance.user, old_values.category_id, old_values.date)
                       ELSE {}
        db3 == recalculate_all(db2, old_budgets, fault)
        new_budgets == expense_targets(db3, instance.user, instance.type, instance.category, instance.date)
        db4 == IF instance.type = "expense" /\ instance.category # NoCategory
               THEN update_budgets_for_transaction(db3, instance, fault)
               ELSE db3
        db5 == [db4 EXCEPT !.old_values =
                    [p \in DOMAIN db4.old_values \ {instance.pk} |-> db4.old_values[p]]]
    IN  IF fault.point = "old_account" THEN [db |-> db, failed |-> TRUE]
        ELSE IF fault.point = "account" THEN [db |-> db1, failed |-> TRUE]
        ELSE [db |-> db5,
              failed |-> fault.point = "budget" /\ fault.budget \in (old_budgets \cup new_budgets)]

\* @receiver(post_save); every exception is caught and logged (lines 95-96)
handle_transaction_save(db, instance, created, fault) ==
    IF created THEN save_created(db, instance, fault)
    ELSE save_updated(db, instance, fault)

\* @receiver(post_delete); only the budget recompute has a try/except
handle_transaction_delete(db, instance, fault) ==
    LET db1 == [db EXCEPT !.accounts[instance.account].balance =
                    revert_from_balance(instance_account(db, instance), instance.type, instance.amount)]
        targets == expense_targets(db1, instance.user, instance.type, instance.category, instance.date)
    IN  IF fault.point = "account"
        THEN [db |-> db, failed |-> TRUE, raised |-> TRUE]
        ELSE [db |-> recalculate_all(db1, targets, fault),
              failed |-> fault.point = "budget" /\ fault.budget \in targets,
              raised |-> FALSE]

\* ------------------------------------------------------------- the ORM
Row(instance) ==
    [user |-> instance.user, account |-> instance.account, category |-> instance.category,
     type |-> instance.type, amount |-> instance.amount, date |-> instance.date]

\* Model.save(): pre_save, INSERT or UPDATE (autocommit), post_save
model_save(db, instance, created, fault) ==
    LET db0 == IF created THEN db ELSE store_old_transaction_values(db, instance)
        db1 == [db0 EXCEPT !.transactions = (instance.pk :> Row(instance)) @@ db0.transactions]
    IN  handle_transaction_save(db1, instance, created, fault)

\* Model.delete(): DELETE and post_delete inside one atomic block, which is
\* rolled back when the receiver raises or the block was marked for rollback
model_delete(db, instance, fault) ==
    LET db1 == [db EXCEPT !.transactions =
                    [p \in DOMAIN db.transactions \ {instance.pk} |-> db.transactions[p]]]
        r == handle_transaction_delete(db1, instance, fault)
    IN  IF r.raised \/ (r.failed /\ fault.aborts)
        THEN [db |-> db, failed |-> r.failed, raised |-> r.raised]
        ELSE r

\* ------------------------------------------------------------- views.py
NotCached == [loaded |-> FALSE, balance |-> 0]
Cached(balance) == [loaded |-> TRUE, balance |-> balance]

\* eta_api/utils/responses.py success_response, eta_api/exceptions.py
success_response(message) == [success |-> TRUE, message |-> message]
custom_exception_handler == [success |-> FALSE, message |-> "error"]

Commit(db) ==
    /\ transactions' = db.transactions
    /\ accounts' = db.accounts
    /\ budgets' = db.budgets
    /\ transaction_old_values' = db.old_values

\* a fault is injected only where the request reaches the faulty statement,
\* and the behaviour is followed up to the first injected fault
Injected(r, fault, op) ==
    /\ failed = "none"
    /\ fault = NoFault \/ r.failed
    /\ failed' = IF r.failed THEN op ELSE "none"

\* TransactionSerializer.is_valid(): the fields ModelSerializer builds from
\* the model (serializers.py declares no validator and no validate method) -
\* "account" is looked up among all accounts, "category" among all categories
\* or null, "type" among the choices, "amount" is any decimal number
is_valid(data) ==
    /\ data.account \in DOMAIN accounts
    /\ data.category \in CategoryIds \cup {NoCategory}
    /\ data.type \in TRANSACTION_TYPE_CHOICES
    /\ data.amount \in Int

\* TransactionViewSet.create: the serializer resolves "account" to a freshly
\* queried Account, objects.create() inserts and fires post_save
create(data, fault) ==
    /\ is_valid(data)
    /\ Pks \ DOMAIN transactions # {}
    /\ ~fault.aborts
    /\ LET \* the key the INSERT assigns
           pk == CHOOSE p \in Pks \ DOMAIN transactions :
                    \A q \in Pks \ DOMAIN transactions : p <= q
           instance == [pk |-> pk, user |-> data.user, account |-> data.account,
                        category |-> data.category, type |-> data.type,
                        amount |-> data.amount, date |-> data.date,
                        account_cache |-> Cached(accounts[data.account].balance)]
           r == model_save(Store, instance, TRUE, fault)
       IN  /\ Injected(r, fault, "create")
           /\ Commit(r.db)
           /\ response' = success_response("Transaction created successfully")
    /\ UNCHANGED <<full_updates, procs, recurring, stdout>>

\* TransactionViewSet.update: get_object() loads the caller's entry; when the
\* payload carries "account" the serializer assigns the Account it queried
\* during validation, otherwise instance.account is not yet loaded
update(pk, data, with_account, fault) ==
    /\ pk \in DOMAIN transactions
    /\ data.user = transactions[pk].user
    /\ is_valid(data)
    /\ ~fault.aborts
    /\ with_account \/ data.account = transactions[pk].account
    /\ with_account => full_updates < MaxFullUpdates
    /\ LET instance == [pk |-> pk, user |-> transactions[pk].user, account |-> data.account,
                        category |-> data.category, type |-> data.type,
                        amount |-> data.amount, date |-> data.date,
                        account_cache |-> IF with_account
                                          THEN Cached(accounts[data.account].balance)
                                          ELSE NotCached]
           r == model_save(Store, instance, FALSE, fault)
       IN  /\ Injected(r, fault, "update")
           /\ Commit(r.db)
           /\ response' = success_response("Transaction updated successfully")
    /\ full_updates' = IF with_account THEN full_updates + 1 ELSE full_updates
    /\ UNCHANGED <<procs, recurring, stdout>>

\* TransactionViewSet.destroy: get_object() then instance.delete(); an
\* exception leaving the receiver reaches custom_exception_handler
destroy(pk, fault) ==
    /\ pk \in DOMAIN transactions
    /\ fault.point # "old_account"
    /\ LET t == transactions[pk]
           instance == [pk |-> pk, user |-> t.user, account |-> t.account,
                        category |-> t.category, type |-> t.type, amount |-> t.amount,
                        date |-> t.date, account_cache |-> NotCached]
           r == model_delete(Store, instance, fault)
       IN  /\ Injected(r, fault, "delete")
           /\ Commit(r.db)
           /\ response' = IF r.raised THEN custom_exception_handler
                          ELSE success_response("Transaction deleted successfully")
    /\ UNCHANGED <<full_updates, procs, recurring, stdout>>

\* ----------------------------------------------------- account requests
\* post_delete sent for each collected entry in turn, after the DELETE of
\* all of them: every receiver sees the store without the cascaded entries
RECURSIVE post_delete_all(_, _)
post_delete_all(db, instances) ==
    IF instances = {} THEN db
    ELSE LET instance == CHOOSE x \in instances : \A y \in instances : x.pk <= y.pk
         IN  post_delete_all(handle_transaction_delete(db, instance, NoFault).db,
                             instances \ {instance})

\* the cascade as a raw DELETE that sends no signal
account_delete_raw(db, a) ==
    LET kept == {p \in DOMAIN db.transactions : db.transactions[p].account # a}
        db1 == [db EXCEPT !.transactions = [p \in kept |-> db.transactions[p]]]
    IN  [db1 EXCEPT !.accounts = [x \in DOMAIN db.accounts \ {a} |-> db.accounts[x]]]

\* Account.delete(): on_delete=CASCADE collects the entries that reference
\* the account; inside one atomic block the entries are deleted, post_delete
\* runs for each of them (the account row is still there), then the account
\* row is deleted
account_delete(db, a) ==
    LET gone == {p \in DOMAIN db.transactions : db.transactions[p].account = a}
        instances == {[pk |-> p, user |-> db.transactions[p].user, account |-> a,
                       category |-> db.transactions[p].category,
                       type |-> db.transactions[p].type,
                       amount |-> db.transactions[p].amount,
                       date |-> db.transactions[p].date,
                       account_cache |-> NotCached] : p \in gone}
        db1 == [db EXCEPT !.transactions =
                    [p \in DOMAIN db.transactions \ gone |-> db.transactions[p]]]
        db2 == post_delete_all(db1, instances)
    IN  [db2 EXCEPT !.accounts = [x \in DOMAIN db.accounts \ {a} |-> db2.accounts[x]]]

\* AccountViewSet.destroy: get_object() finds only the caller's accounts;
\* the templates that reference the account are cascaded as well
account_destroy(a, user) ==
    /\ a \in DOMAIN accounts
    /\ accounts[a].user = user
    /\ Commit(account_delete(Store, a))
    /\ recurring' = [r \in {x \in DOMAIN recurring : recurring[x].account # a} |-> recurring[r]]
    /\ response' = success_response("Account deleted successfully")
    /\ UNCHANGED <<failed, full_updates, procs, stdout>>

\* ------------------------------------------------------ budget requests
\* BudgetSerializer: the fields a request may write are Meta.fields without
\* read_only_fields ("id", "user", "created_at", "remaining"), so category,
\* start_date, end_date and current_expense come from the payload; the
\* payload may leave current_expense out (the model field has a default)
budget_validated_data(data, current) ==
    [category |-> data.category, start_date |-> data.start_date, end_date |-> data.end_date,
     current_expense |-> IF data.has_current_expense THEN data.current_expense ELSE current]

\* BudgetViewSet.create: serializer.save(user=request.user); nothing in the
\* budgets app looks at the stored entries
budget_create(data) ==
    /\ BudgetIds \ DOMAIN budgets # {}
    /\ LET \* the id the INSERT assigns
           b == CHOOSE x \in BudgetIds \ DOMAIN budgets : TRUE
           v == budget_validated_data(data, 0)
       IN  budgets' = (b :> [user |-> data.user, category |-> v.category,
                             start_date |-> v.start_date, end_date |-> v.end_date,
                             current_expense |-> v.current_expense]) @@ budgets
    /\ response' = success_response("Budget created successfully")
    /\ UNCHANGED <<transactions, accounts, transaction_old_values, failed, full_updates,
                   procs, recurring, stdout>>

\* BudgetViewSet.update: get_object() finds only the caller's budgets, then
\* perform_update saves the validated fields
budget_update(b, data) ==
    /\ b \in DOMAIN budgets
    /\ budgets[b].user = data.user
    /\ LET v == budget_validated_data(data, budgets[b].current_expense)
       IN  budgets' = [budgets EXCEPT ![b] =
                        [@ EXCEPT !.category = v.category, !.start_date = v.start_date,
                                  !.end_date = v.end_date,
                                  !.current_expense = v.current_expense]]
    /\ response' = success_response("Budget updated successfully")
    /\ UNCHANGED <<transactions, accounts, transaction_old_values, failed, full_updates,
                   procs, recurring, stdout>>

\* BudgetViewSet.destroy
budget_destroy(b, user) ==
    /\ b \in DOMAIN budgets
    /\ budgets[b].user = user
    /\ budgets' = [x \in DOMAIN budgets \ {b} |-> budgets[x]]
    /\ response' = success_response("Budget deleted successfully")
    /\ UNCHANGED <<transactions, accounts, transaction_old_values, failed, full_updates,
                   procs, recurring, stdout>>

\* ------------------------------------------- statement-level execution
\* Nothing in signals.py or views.py opens a transaction or takes a lock on
\* the save path, so every ORM call is its own autocommitted statement and
\* the statements of concurrent workers interleave.  One action below is one
\* statement together with the Python code that leads up to it; each worker
\* serves one request.
ProcIds == {"h1", "h2"}

NoInstance ==
    [pk |-> 0, user |-> "none", account |-> "none", category |-> NoCategory,
     type |-> "none", amount |-> 0, date |-> 0, account_cache |-> NotCached]

NoOldValues ==
    [amount |-> 0, type |-> "none", account_id |-> "none", category_id |-> NoCategory, date |-> 0]

\* a DateField that is NULL; stored dates are day numbers from 1
NoDate == 0

\* the locals of Command.handle before the command runs: the rows of the
\* queryset not visited yet, the row being processed, the written lines
NoSweep ==
    [today |-> NoDate, dry_run |-> FALSE, queryset |-> << >>, current |-> 0, lines |-> {},
     processed_count |-> 0, skipped_count |-> 0]

\* a worker that has not received its request yet
Idle ==
    [pc |-> "idle", op |-> "none", instance |-> NoInstance, old_values |-> NoOldValues,
     old_account |-> NotCached, todo |-> {}, later |-> {}, budget |-> "none", total |-> 0,
     sweep |-> NoSweep]

\* a worker whose request has been answered
Done(op) == [Idle EXCEPT !.pc = "done", !.op = op]

\* some worker holds an entry object with this pk
InUse(pk) == \E q \in ProcIds : procs[q].instance.pk = pk

\* where a receiver continues after its balance writes: the budgets of the
\* first loop, then those of the second, then the end of the receiver
budget_loop(local, first, second) ==
    IF first # {} THEN [local EXCEPT !.pc = "aggregate", !.todo = first, !.later = second]
    ELSE IF second # {} THEN [local EXCEPT !.pc = "aggregate", !.todo = second, !.later = {}]
    ELSE [local EXCEPT !.pc = "return", !.todo = {}, !.later = {}]

\* TransactionViewSet.create, serializer.is_valid(): SELECT the account
validate(self, data) ==
    /\ procs[self].pc = "idle"
    /\ is_valid(data)
    /\ procs' = [procs EXCEPT ![self] =
                    [Idle EXCEPT !.pc = "insert", !.op = "create",
                                 !.instance = [pk |-> 0, user |-> data.user, account |-> data.account,
                                               category |-> data.category, type |-> data.type,
                                               amount |-> data.amount, date |-> data.date,
                                               account_cache |-> Cached(accounts[data.account].balance)]]]
    /\ UNCHANGED <<transactions, accounts, budgets, transaction_old_values, response, failed,
                   full_updates, recurring, stdout>>

\* Transaction.objects.create(): INSERT under a key no live object carries
insert(self) ==
    /\ procs[self].pc = "insert"
    /\ \E pk \in Pks :
        /\ pk \notin DOMAIN transactions /\ ~InUse(pk)
        /\ \A q \in Pks : (q \notin DOMAIN transactions /\ ~InUse(q)) => pk <= q
        /\ LET instance == [procs[self].instance EXCEPT !.pk = pk]
           IN  /\ transactions' = (pk :> Row(instance)) @@ transactions
               /\ procs' = [procs EXCEPT ![self] =
                               [@ EXCEPT !.pc = "account_save", !.instance = instance]]
    /\ UNCHANGED <<accounts, budgets, transaction_old_values, response, failed,
                   full_updates, recurring, stdout>>

\* TransactionViewSet.update up to serializer.save(): get_object() SELECTs
\* the entry, validation SELECTs the account when the payload names one
get_object(self, pk, data, with_account) ==
    /\ procs[self].pc = "idle"
    /\ pk \in DOMAIN transactions
    /\ \A q \in ProcIds : procs[q].instance.pk = pk => procs[q].op = "update"
    /\ data.user = transactions[pk].user
    /\ is_valid(data)
    /\ with_account \/ data.account = transactions[pk].account
    /\ with_account => full_updates < MaxFullUpdates
    /\ procs' = [procs EXCEPT ![self] =
                    [Idle EXCEPT !.pc = "pre_save", !.op = "update",
                                 !.instance = [pk |-> pk, user |-> transactions[pk].user,
                                               account |-> data.account, category |-> data.category,
                                               type |-> data.type, amount |-> data.amount,
                                               date |-> data.date,
                                               account_cache |-> IF with_account
                                                                 THEN Cached(accounts[data.account].balance)
                                                                 ELSE NotCached]]]
    /\ full_updates' = IF with_account THEN full_updates + 1 ELSE full_updates
    /\ UNCHANGED <<transactions, accounts, budgets, transaction_old_values, response, failed,
                   recurring, stdout>>

\* store_old_transaction_values: SELECT the stored row into the shared dict
pre_save(self) ==
    /\ procs[self].pc = "pre_save"
    /\ transaction_old_values' = store_old_transaction_values(Store, procs[self].instance).old_values
    /\ procs' = [procs EXCEPT ![self].pc = "write"]
    /\ UNCHANGED <<transactions, accounts, budgets, response, failed, full_updates, recurring, stdout>>

\* Model.save() of an entry that has a pk: UPDATE the row
write(self) ==
    /\ procs[self].pc = "write"
    /\ transactions' = (procs[self].instance.pk :> Row(procs[self].instance)) @@ transactions
    /\ procs' = [procs EXCEPT ![self].pc = "old_account"]
    /\ UNCHANGED <<accounts, budgets, transaction_old_values, response, failed,
                   full_updates, recurring, stdout>>

\* handle_transaction_save, update branch: take the old values out of the
\* shared dict if they are (still) there and SELECT the old account
old_account(self) ==
    /\ procs[self].pc = "old_account"
    /\ LET pk == procs[self].instance.pk IN
        IF pk \in DOMAIN transaction_old_values
        THEN procs' = [procs EXCEPT ![self] =
                [@ EXCEPT !.pc = "old_account_save",
                          !.old_values = transaction_old_values[pk],
                          !.old_account = Cached(accounts[transaction_old_values[pk].account_id].balance)]]
        ELSE procs' = [procs EXCEPT ![self].pc = "return"]
    /\ UNCHANGED <<transactions, accounts, budgets, transaction_old_values, response, failed,
                   full_updates, recurring, stdout>>

\* old_account.balance -=/+= old amount; old_account.save()
old_account_save(self) ==
    /\ procs[self].pc = "old_account_save"
    /\ LET local == procs[self] IN
        /\ accounts' = [accounts EXCEPT ![local.old_values.account_id].balance =
                            revert_from_balance(local.old_account.balance,
                                                local.old_values.type, local.old_values.amount)]
        /\ procs' = [procs EXCEPT ![self].pc =
                        IF local.instance.account_cache.loaded THEN "account_save" ELSE "account"]
    /\ UNCHANGED <<transactions, budgets, transaction_old_values, response, failed,
                   full_updates, recurring, stdout>>

\* account = instance.account when no Account object is cached: SELECT it
account(self) ==
    /\ procs[self].pc = "account"
    /\ procs' = [procs EXCEPT ![self] =
                    [@ EXCEPT !.pc = "account_save",
                              !.instance.account_cache =
                                  Cached(accounts[procs[self].instance.account].balance)]]
    /\ UNCHANGED <<transactions, accounts, budgets, transaction_old_values, response, failed,
                   full_updates, recurring, stdout>>

\* account.balance +=/-= amount; account.save(); then the budget querysets
account_save(self) ==
    /\ procs[self].pc = "account_save"
    /\ LET local == procs[self]
           instance == local.instance
           old_budgets == IF local.op = "update" /\ local.old_values.type = "expense"
                          THEN matching_budgets(Store, instance.user, local.old_values.category_id,
                                                local.old_values.date)
                          ELSE {}
           new_budgets == expense_targets(Store, instance.user, instance.type,
                                          instance.category, instance.date)
       IN  /\ accounts' = [accounts EXCEPT ![instance.account].balance =
                              apply_to_balance(instance.account_cache.balance,
                                               instance.type, instance.amount)]
           /\ procs' = [procs EXCEPT ![self] = budget_loop(local, old_budgets, new_budgets)]
    /\ UNCHANGED <<transactions, budgets, transaction_old_values, response, failed,
                   full_updates, recurring, stdout>>

\* recalculate_budget_expense: the aggregate query over the window
aggregate(self) ==
    /\ procs[self].pc = "aggregate"
    /\ \E b \in procs[self].todo :
        procs' = [procs EXCEPT ![self] =
                    [@ EXCEPT !.pc = "budget_save", !.budget = b,
                              !.total = total_expense(transactions, budgets[b])]]
    /\ UNCHANGED <<transactions, accounts, budgets, transaction_old_values, response, failed,
                   full_updates, recurring, stdout>>

\* recalculate_budget_expense: budget.current_expense = total_expense; budget.save()
budget_save(self) ==
    /\ procs[self].pc = "budget_save"
    /\ LET local == procs[self] IN
        /\ budgets' = [budgets EXCEPT ![local.budget].current_expense = local.total]
        /\ procs' = [procs EXCEPT ![self] =
                        budget_loop([local EXCEPT !.budget = "none", !.total = 0],
                                    local.todo \ {local.budget}, local.later)]
    /\ UNCHANGED <<transactions, accounts, transaction_old_values, response, failed,
                   full_updates, recurring, stdout>>

\* the end of the receiver (del _transaction_old_values[pk] after an update
\* that found its old values) and the view's response
return(self) ==
    /\ procs[self].pc = "return"
    /\ procs[self].op \in {"create", "update"}
    /\ LET local == procs[self] IN
        /\ transaction_old_values' =
            IF local.op = "update" /\ local.old_values # NoOldValues
            THEN [p \in DOMAIN transaction_old_values \ {local.instance.pk} |->
                    transaction_old_values[p]]
            ELSE transaction_old_values
        /\ response' = IF local.op = "update"
                       THEN success_response("Transaction updated successfully")
                       ELSE success_response("Transaction created successfully")
    /\ procs' = [procs EXCEPT ![self] = Done(procs[self].op)]
    /\ UNCHANGED <<transactions, accounts, budgets, failed, full_updates, recurring, stdout>>

\* TransactionViewSet.destroy up to the receiver's first write: get_object(),
\* then inside Collector.delete()'s atomic block the DELETE and the SELECT
\* behind account = instance.account
delete_load(self, pk) ==
    /\ procs[self].pc = "idle"
    /\ pk \in DOMAIN transactions
    /\ ~InUse(pk)
    /\ LET t == transactions[pk] IN
        procs' = [procs EXCEPT ![self] =
            [Idle EXCEPT !.pc = "commit", !.op = "delete",
                         !.instance = [pk |-> pk, user |-> t.user, account |-> t.account,
                                       category |-> t.category, type |-> t.type,
                                       amount |-> t.amount, date |-> t.date,
                                       account_cache |-> Cached(accounts[t.account].balance)]]]
    /\ UNCHANGED <<transactions, accounts, budgets, transaction_old_values, response, failed,
                   full_updates, recurring, stdout>>

\* the rest of the atomic block, published by its COMMIT: the row is gone,
\* the balance is written from the Account loaded above, the budgets are
\* recomputed
delete_commit(self) ==
    /\ procs[self].pc = "commit"
    /\ LET r == model_delete(Store, procs[self].instance, NoFault)
       IN  Commit(r.db)
    /\ response' = success_response("Transaction deleted successfully")
    /\ procs' = [procs EXCEPT ![self] = Done(procs[self].op)]
    /\ UNCHANGED <<failed, full_updates, recurring, stdout>>

\* AccountViewSet.list: one SELECT of the caller's accounts
list(user) ==
    /\ \E q \in ProcIds : procs[q].op = "update" /\ procs[q].pc # "done"
    /\ response' = [success |-> TRUE, message |-> "Success",
                    data |-> [a \in {x \in AccountIds : accounts[x].user = user} |->
                                accounts[a].balance]]
    /\ UNCHANGED <<transactions, accounts, budgets, transaction_old_values, failed,
                   full_updates, procs, recurring, stdout>>

\* --------------------------------------------- recurring transactions
\* RecurringTransaction.FREQUENCY_CHOICES
FREQUENCY_CHOICES == {"daily", "weekly", "monthly", "yearly"}

\* primary keys of the templates stored at one time
RecurringPks == {1, 2}

\* the last run printed nothing yet
NoReport ==
    [today |-> NoDate, dry_run |-> FALSE, lines |-> {}, processed_count |-> 0,
     skipped_count |-> 0]

\* next_due computed from the current watermark instead of one interval later
should_process_today_no_interval(row, today) ==
    IF row.last_processed_date = NoDate THEN today >= row.start_date
    ELSE today >= row.last_processed_date

\* "monthly" taken as 31 days
should_process_today_calendar(row, today) ==
    IF row.last_processed_date = NoDate THEN today >= row.start_date
    ELSE IF row.frequency = "daily" THEN today >= row.last_processed_date + 1
    ELSE IF row.frequency = "weekly" THEN today >= row.last_processed_date + 7
    ELSE IF row.frequency = "monthly" THEN today >= row.last_processed_date + 31
    ELSE IF row.frequency = "yearly" THEN today >= row.last_processed_date + 365
    ELSE FALSE

\* Command.should_process_today
should_process_today(row, today) ==
    IF row.last_processed_date = NoDate THEN today >= row.start_date
    ELSE IF row.frequency = "daily" THEN today >= row.last_processed_date + 1
    ELSE IF row.frequency = "weekly" THEN today >= row.last_processed_date + 7
    ELSE IF row.frequency = "monthly" THEN today >= row.last_processed_date + 30
    ELSE IF row.frequency = "yearly" THEN today >= row.last_processed_date + 365
    ELSE FALSE

\* the queryset without its end_date filter
recurring_transactions_started(table, today) ==
    {r \in DOMAIN table : table[r].start_date <= today}

\* RecurringTransaction.objects.filter(start_date__lte=today)
\*     .filter(Q(end_date__isnull=True) | Q(end_date__gte=today))
recurring_transactions(table, today) ==
    {r \in DOMAIN table :
        /\ table[r].start_date <= today
        /\ table[r].end_date = NoDate \/ table[r].end_date >= today}

\* the watermark moved one interval on from the old one, not to today
materialize_next_interval(st, r, today) ==
    LET row == st.recurring[r]
        pk == CHOOSE p \in Pks \ DOMAIN st.db.transactions :
                \A q \in Pks \ DOMAIN st.db.transactions : p <= q
        instance == [pk |-> pk, user |-> row.user, account |-> row.account,
                     category |-> row.category, type |-> row.type, amount |-> row.amount,
                     date |-> today,
                     account_cache |-> Cached(st.db.accounts[row.account].balance)]
        step == IF row.frequency = "daily" THEN 1
                ELSE IF row.frequency = "weekly" THEN 7
                ELSE IF row.frequency = "monthly" THEN 30 ELSE 365
    IN  [st EXCEPT !.db = model_save(st.db, instance, TRUE, NoFault).db,
                   !.recurring = [st.recurring EXCEPT ![r].last_processed_date =
                        IF row.last_processed_date = NoDate THEN today
                        ELSE row.last_processed_date + step]]

\* the entry dated with the template's start_date
materialize_on_start_date(st, r, today) ==
    LET row == st.recurring[r]
        pk == CHOOSE p \in Pks \ DOMAIN st.db.transactions :
                \A q \in Pks \ DOMAIN st.db.transactions : p <= q
        instance == [pk |-> pk, user |-> row.user, account |-> row.account,
                     category |-> row.category, type |-> row.type, amount |-> row.amount,
                     date |-> row.start_date,
                     account_cache |-> Cached(st.db.accounts[row.account].balance)]
    IN  [st EXCEPT !.db = model_save(st.db, instance, TRUE, NoFault).db,
                   !.recurring = [st.recurring EXCEPT ![r].last_processed_date = today]]

\* the row inserted without Model.save(), so that no receiver runs
materialize_bulk(st, r, today) ==
    LET row == st.recurring[r]
        pk == CHOOSE p \in Pks \ DOMAIN st.db.transactions :
                \A q \in Pks \ DOMAIN st.db.transactions : p <= q
    IN  [st EXCEPT !.db.transactions =
                        (pk :> [user |-> row.user, account |-> row.account,
                                category |-> row.category, type |-> row.type,
                                amount |-> row.amount, date |-> today]) @@ st.db.transactions,
                   !.recurring = [st.recurring EXCEPT ![r].last_processed_date = today]]

\* Transaction.objects.create(...) for one template, then
\* recurring.last_processed_date = today; recurring.save()
materialize(st, r, today) ==
    LET row == st.recurring[r]
        pk == CHOOSE p \in Pks \ DOMAIN st.db.transactions :
                \A q \in Pks \ DOMAIN st.db.transactions : p <= q
        instance == [pk |-> pk, user |-> row.user, account |-> row.account,
                     category |-> row.category, type |-> row.type, amount |-> row.amount,
                     date |-> today,
                     account_cache |-> Cached(st.db.accounts[row.account].balance)]
    IN  [st EXCEPT !.db = model_save(st.db, instance, TRUE, NoFault).db,
                   !.recurring = [st.recurring EXCEPT ![r].last_processed_date = today]]

\* processed_count += 1 moved into the live branch
visit_dry_uncounted(st, r, today, dry_run) ==
    IF should_process_today(st.recurring[r], today)
    THEN IF dry_run THEN [st EXCEPT !.lines = st.lines \cup {r}]
         ELSE [materialize(st, r, today) EXCEPT !.lines = st.lines \cup {r},
                                                !.processed_count = st.processed_count + 1]
    ELSE [st EXCEPT !.skipped_count = st.skipped_count + 1]

\* the loop body with the dry_run test left out
visit_live(st, r, today, dry_run) ==
    IF should_process_today(st.recurring[r], today)
    THEN [materialize(st, r, today) EXCEPT !.lines = st.lines \cup {r},
                                           !.processed_count = st.processed_count + 1]
    ELSE [st EXCEPT !.skipped_count = st.skipped_count + 1]

\* the body of the loop of Command.handle for one row of the queryset; lines
\* holds the templates for which "Created" or "[DRY RUN] Would create" was written
visit(st, r, today, dry_run) ==
    IF should_process_today(st.recurring[r], today)
    THEN [(IF dry_run THEN st ELSE materialize(st, r, today))
            EXCEPT !.lines = st.lines \cup {r},
                   !.processed_count = st.processed_count + 1]
    ELSE [st EXCEPT !.skipped_count = st.skipped_count + 1]

\* the loop of Command.handle over the queryset rows not yet visited
RECURSIVE process(_, _, _, _)
process(st, queue, today, dry_run) ==
    IF queue = {} THEN st
    ELSE LET r == CHOOSE x \in queue : \A y \in queue : x <= y
         IN  process(visit(st, r, today, dry_run), queue \ {r}, today, dry_run)

\* Command.handle: one run of process_recurring_transactions
handle(today, dry_run) ==
    LET queue == recurring_transactions(recurring, today)
        due == {r \in queue : should_process_today(recurring[r], today)}
        st == process([db |-> Store, recurring |-> recurring, lines |-> {},
                       processed_count |-> 0, skipped_count |-> 0],
                      queue, today, dry_run)
    IN  /\ dry_run \/ Cardinality(due) <= Cardinality(Pks \ DOMAIN transactions)
        /\ Commit(st.db)
        /\ recurring' = st.recurring
        /\ stdout' = [today |-> today, dry_run |-> dry_run, lines |-> st.lines,
                      processed_count |-> st.processed_count,
                      skipped_count |-> st.skipped_count]
        /\ UNCHANGED <<response, failed, full_updates, procs>>

\* Command.handle up to its loop, run by a worker of its own: today, the
\* dry_run option and the rows the queryset returns when the loop starts
sweep_start(self, today, dry_run) ==
    /\ procs[self].pc = "idle"
    /\ procs' = [procs EXCEPT ![self] =
                    [Idle EXCEPT !.pc = "sweep_next", !.op = "sweep",
                                 !.sweep = [NoSweep EXCEPT
                                    !.today = today, !.dry_run = dry_run,
                                    !.queryset = [r \in recurring_transactions(recurring, today)
                                                    |-> recurring[r]]]]]
    /\ UNCHANGED <<transactions, accounts, budgets, transaction_old_values, response, failed,
                   full_updates, recurring, stdout>>

\* the head of the loop: the next row of the queryset as it was read,
\* should_process_today on that row, and for a due row of a live run the
\* arguments of Transaction.objects.create (recurring.account SELECTs the
\* account); after the last row the summary line is written
sweep_next(self) ==
    /\ procs[self].pc = "sweep_next"
    /\ LET local == procs[self]
           sw == local.sweep
       IN  IF DOMAIN sw.queryset = {}
           THEN /\ stdout' = [today |-> sw.today, dry_run |-> sw.dry_run, lines |-> sw.lines,
                              processed_count |-> sw.processed_count,
                              skipped_count |-> sw.skipped_count]
                /\ procs' = [procs EXCEPT ![self] = Done("sweep")]
           ELSE LET r == CHOOSE x \in DOMAIN sw.queryset : \A y \in DOMAIN sw.queryset : x <= y
                    row == sw.queryset[r]
                    rest == [x \in DOMAIN sw.queryset \ {r} |-> sw.queryset[x]]
                IN  /\ stdout' = stdout
                    /\ procs' = [procs EXCEPT ![self] =
                        IF ~should_process_today(row, sw.today)
                        THEN [local EXCEPT !.sweep.queryset = rest,
                                           !.sweep.skipped_count = sw.skipped_count + 1]
                        ELSE IF sw.dry_run
                        THEN [local EXCEPT !.sweep.queryset = rest,
                                           !.sweep.lines = sw.lines \cup {r},
                                           !.sweep.processed_count = sw.processed_count + 1]
                        ELSE [local EXCEPT
                                !.pc = "insert", !.sweep.current = r,
                                !.instance = [pk |-> 0, user |-> row.user, account |-> row.account,
                                              category |-> row.category, type |-> row.type,
                                              amount |-> row.amount, date |-> sw.today,
                                              account_cache |->
                                                  Cached(accounts[row.account].balance)]]]
    /\ UNCHANGED <<transactions, accounts, budgets, transaction_old_values, response, failed,
                   full_updates, recurring>>

\* after the receiver of the created entry: recurring.last_processed_date =
\* today; recurring.save() writes the row object the queryset returned
recurring_save(self) ==
    /\ procs[self].pc = "return"
    /\ procs[self].op = "sweep"
    /\ LET local == procs[self]
           sw == local.sweep
           r == sw.current
       IN  /\ recurring' = (r :> [sw.queryset[r] EXCEPT !.last_processed_date = sw.today])
                                @@ recurring
           /\ procs' = [procs EXCEPT ![self] =
                [local EXCEPT !.pc = "sweep_next", !.instance = NoInstance,
                              !.sweep.current = 0,
                              !.sweep.queryset = [x \in DOMAIN sw.queryset \ {r} |-> sw.queryset[x]],
                              !.sweep.lines = sw.lines \cup {r},
                              !.sweep.processed_count = sw.processed_count + 1]]
    /\ UNCHANGED <<transactions, accounts, budgets, transaction_old_values, response, failed,
                   full_updates, stdout>>

\* a run of the command that ended without its summary line
Stopped(pc) == [Idle EXCEPT !.pc = pc, !.op = "sweep"]

\* the watermark written although the entry was not created
insert_fails_marked(self) ==
    /\ procs[self].pc = "insert"
    /\ procs[self].op = "sweep"
    /\ recurring' = [recurring EXCEPT ![procs[self].sweep.current].last_processed_date =
                                        procs[self].sweep.today]
    /\ procs' = [procs EXCEPT ![self] = Stopped("failed")]
    /\ UNCHANGED <<transactions, accounts, budgets, transaction_old_values, response, failed,
                   full_updates, stdout>>

\* Transaction.objects.create() raises (the INSERT is refused): the loop has
\* no try/except, the exception leaves handle() before recurring.save()
insert_fails(self) ==
    /\ procs[self].pc = "insert"
    /\ procs[self].op = "sweep"
    /\ procs' = [procs EXCEPT ![self] = Stopped("failed")]
    /\ UNCHANGED <<transactions, accounts, budgets, transaction_old_values, response, failed,
                   full_updates, recurring, stdout>>

\* the process of a running command is killed between two statements; every
\* statement already executed was autocommitted and stays
crash(self) ==
    /\ procs[self].op = "sweep"
    /\ procs[self].pc \notin {"done", "failed", "crashed"}
    /\ procs' = [procs EXCEPT ![self] = Stopped("crashed")]
    /\ UNCHANGED <<transactions, accounts, budgets, transaction_old_values, response, failed,
                   full_updates, recurring, stdout>>

\* the command started while no other run of it is in progress
sweep_alone(self, today, dry_run) ==
    /\ \A q \in ProcIds \ {self} : procs[q].pc \in {"idle", "done", "failed", "crashed"}
    /\ sweep_start(self, today, dry_run)

\* RecurringTransactionSerializer.is_valid(): as for entries, the fields
\* built from the model and no validator of the repository
recurring_is_valid(data) ==
    /\ data.account \in DOMAIN accounts
    /\ data.category \in CategoryIds \cup {NoCategory}
    /\ data.amount \in Int
    /\ data.frequency \in FREQUENCY_CHOICES

\* RecurringTransactionViewSet.create: type and last_processed_date are not
\* serializer fields, the row gets the model defaults
recurring_create(data) ==
    /\ recurring_is_valid(data)
    /\ RecurringPks \ DOMAIN recurring # {}
    /\ LET pk == CHOOSE p \in RecurringPks \ DOMAIN recurring :
                    \A q \in RecurringPks \ DOMAIN recurring : p <= q
       IN  recurring' = (pk :> [user |-> data.user, account |-> data.account,
                                category |-> data.category, type |-> "expense",
                                amount |-> data.amount, frequency |-> data.frequency,
                                start_date |-> data.start_date, end_date |-> data.end_date,
                                last_processed_date |-> NoDate]) @@ recurring
    /\ response' = success_response("Recurring transaction created successfully")
    /\ UNCHANGED <<transactions, accounts, budgets, transaction_old_values, failed,
                   full_updates, procs, stdout>>

\* last_processed_date handled as a serializer field left out of the payload
recurring_update_full_row(pk, data) ==
    /\ pk \in DOMAIN recurring
    /\ data.user = recurring[pk].user
    /\ recurring' = [recurring EXCEPT ![pk] =
                        [@ EXCEPT !.account = data.account, !.category = data.category,
                                  !.amount = data.amount, !.frequency = data.frequency,
                                  !.start_date = data.start_date, !.end_date = data.end_date,
                                  !.last_processed_date = NoDate]]
    /\ response' = success_response("Recurring transaction updated successfully")
    /\ UNCHANGED <<transactions, accounts, budgets, transaction_old_values, failed,
                   full_updates, procs, stdout>>

\* RecurringTransactionViewSet.update: the serializer fields are replaced
recurring_update(pk, data) ==
    /\ pk \in DOMAIN recurring
    /\ data.user = recurring[pk].user
    /\ recurring_is_valid(data)
    /\ recurring' = [recurring EXCEPT ![pk] =
                        [@ EXCEPT !.account = data.account, !.category = data.category,
                                  !.amount = data.amount, !.frequency = data.frequency,
                                  !.start_date = data.start_date, !.end_date = data.end_date]]
    /\ response' = success_response("Recurring transaction updated successfully")
    /\ UNCHANGED <<transactions, accounts, budgets, transaction_old_values, failed,
                   full_updates, procs, stdout>>

\* RecurringTransactionViewSet.destroy
recurring_destroy(pk) ==
    /\ pk \in DOMAIN recurring
    /\ recurring' = [p \in DOMAIN recurring \ {pk} |-> recurring[p]]
    /\ response' = success_response("Recurring transaction deleted successfully")
    /\ UNCHANGED <<transactions, accounts, budgets, transaction_old_values, failed,
                   full_updates, procs, stdout>>

\* ------------------------------------------------------- request payloads
Payload(users, accts, types, amounts, slots) ==
    {[user |-> u, account |-> a, category |-> s[1], type |-> t, amount |-> m, date |-> s[2]] :
        u \in users, a \in accts, t \in types, m \in amounts, s \in slots}

\* one account; every category, dates inside and outside the short windows
LedgerData ==
    Payload({"u1"}, {"a1"}, TRANSACTION_TYPE_CHOICES, Amounts,
            {<<"Groceries", 1>>, <<"Groceries", 2>>, <<"Entertainment", 1>>, <<NoCategory, 1>>})

\* entries that move between accounts
AccountData ==
    Payload({"u1"}, AccountIds, TRANSACTION_TYPE_CHOICES, Amounts, {<<"Groceries", 1>>})

\* the requests replayed under injected faults
FaultData ==
    Payload({"u1"}, {"a1"}, TRANSACTION_TYPE_CHOICES, Amounts,
            {<<"Groceries", 1>>, <<"Entertainment", 1>>})

\* ------------------------------------------------------- specifications
opening_balance == [a \in AccountIds |-> IF a = "a1" THEN 1000 ELSE 500]

\* an empty ledger, the accounts and the budgets of the scenarios
InitLedger ==
    /\ transactions = << >>
    /\ accounts = [a \in AccountIds |->
                    [user |-> IF a = "a3" THEN "u2" ELSE "u1", balance |-> opening_balance[a]]]
    /\ budgets = [b \in BudgetIds |->
                    [user |-> IF b = "b4" THEN "u2" ELSE "u1",
                     category |-> IF b = "b2" THEN "Entertainment" ELSE "Groceries",
                     start_date |-> 1,
                     end_date |-> IF b = "b1" THEN 1 ELSE 2,
                     current_expense |-> 0]]
    /\ transaction_old_values = << >>
    /\ response = success_response("")
    /\ failed = "none"
    /\ full_updates = 0
    /\ procs = [p \in ProcIds |-> Idle]
    /\ stdout = NoReport

Init == InitLedger /\ recurring = << >>

Create(D, fault) == \E data \in D : create(data, fault)

Update(D, fault) ==
    \E pk \in Pks, data \in D, with_account \in BOOLEAN : update(pk, data, with_account, fault)

Destroy(fault) == \E pk \in Pks : destroy(pk, fault)

Next ==
    \/ Create(LedgerData, NoFault)
    \/ Update(LedgerData, NoFault)
    \/ Destroy(NoFault)

Spec == Init /\ [][Next]_vars

NextAccounts ==
    \/ Create(AccountData, NoFault)
    \/ Update(AccountData, NoFault)
    \/ Destroy(NoFault)

SpecAccounts == Init /\ [][NextAccounts]_vars

NextFault ==
    \/ \E fault \in Faults : Create(FaultData, fault)
    \/ \E fault \in Faults : Update(FaultData, fault)
    \/ \E fault \in Faults : Destroy(fault)

SpecFault == Init /\ [][NextFault]_vars

\* two workers serving requests on one account and one budget window
ConcData ==
    Payload({"u1"}, {"a1"}, TRANSACTION_TYPE_CHOICES, Amounts, {<<"Groceries", 2>>})

NextConc ==
    \/ \E self \in ProcIds, data \in ConcData : validate(self, data)
    \/ \E self \in ProcIds : insert(self)
    \/ \E self \in ProcIds, pk \in Pks, data \in ConcData, with_account \in BOOLEAN :
            get_object(self, pk, data, with_account)
    \/ \E self \in ProcIds : pre_save(self)
    \/ \E self \in ProcIds : write(self)
    \/ \E self \in ProcIds : old_account(self)
    \/ \E self \in ProcIds : old_account_save(self)
    \/ \E self \in ProcIds : account(self)
    \/ \E self \in ProcIds : account_save(self)
    \/ \E self \in ProcIds : aggregate(self)
    \/ \E self \in ProcIds : budget_save(self)
    \/ \E self \in ProcIds : return(self)
    \/ \E self \in ProcIds, pk \in Pks : delete_load(self, pk)
    \/ \E self \in ProcIds : delete_commit(self)
    \/ list("u1")

SpecConc == Init /\ [][NextConc]_vars

\* two runs of the command over one daily template that is due from day 1
InitSweeps ==
    /\ InitLedger
    /\ recurring = (1 :> [user |-> "u1", account |-> "a1", category |-> "Groceries",
                          type |-> "expense", amount |-> 50, frequency |-> "daily",
                          start_date |-> 1, end_date |-> NoDate,
                          last_processed_date |-> NoDate])

NextSweeps ==
    \/ \E self \in ProcIds, today \in {1, 2}, dry_run \in BOOLEAN :
            sweep_start(self, today, dry_run)
    \/ \E self \in ProcIds : sweep_next(self)
    \/ \E self \in ProcIds : insert(self)
    \/ \E self \in ProcIds : account_save(self)
    \/ \E self \in ProcIds : aggregate(self)
    \/ \E self \in ProcIds : budget_save(self)
    \/ \E self \in ProcIds : recurring_save(self)

SpecSweeps == InitSweeps /\ [][NextSweeps]_vars

\* payloads whose amount is below zero next to payloads whose amount is not
SignedData ==
    Payload({"u1"}, {"a1"}, TRANSACTION_TYPE_CHOICES, {50, 0 - 50}, {<<"Groceries", 1>>})

SignedTemplateData ==
    {[user |-> "u1", account |-> "a1", category |-> "Groceries", amount |-> m,
      frequency |-> "daily", start_date |-> 1, end_date |-> NoDate] : m \in {50, 0 - 50}}

NextSigned ==
    \/ Create(SignedData, NoFault)
    \/ Update(SignedData, NoFault)
    \/ Destroy(NoFault)
    \/ \E data \in SignedTemplateData : recurring_create(data)
    \/ \E pk \in RecurringPks, data \in SignedTemplateData : recurring_update(pk, data)

SpecSigned == Init /\ [][NextSigned]_vars

\* budget payloads: with and without the current_expense field
BudgetData ==
    {[user |-> "u1", category |-> x[1], start_date |-> x[2], end_date |-> x[3],
      has_current_expense |-> x[4], current_expense |-> x[5]] :
        x \in {<<"Groceries", 1, 2, FALSE, 0>>, <<"Groceries", 2, 2, FALSE, 0>>,
                <<"Entertainment", 1, 2, FALSE, 0>>, <<"Groceries", 1, 2, TRUE, 70>>}}

\* the payloads that leave current_expense to the server
BudgetWindowData == {data \in BudgetData : ~data.has_current_expense}

\* the entries posted next to the budget requests
BudgetEntryData ==
    Payload({"u1"}, {"a1"}, {"expense"}, {50}, {<<"Groceries", 1>>, <<"Groceries", 2>>})

BudgetRequests(D) ==
    \/ \E data \in D : budget_create(data)
    \/ \E b \in BudgetIds, data \in D : budget_update(b, data)
    \/ \E b \in BudgetIds : budget_destroy(b, "u1")

NextBudgets ==
    \/ BudgetRequests(BudgetData)
    \/ Create(BudgetEntryData, NoFault)
    \/ Destroy(NoFault)

SpecBudgets == Init /\ [][NextBudgets]_vars

NextBudgetEdits ==
    \/ BudgetRequests(BudgetWindowData)
    \/ Create(BudgetEntryData, NoFault)
    \/ Destroy(NoFault)

SpecBudgetEdits == Init /\ [][NextBudgetEdits]_vars

\* budgets with disjoint windows whose current_expense was overwritten by
\* budget requests (BudgetSerializer lets the payload write it) and so holds
\* 7 before the first entry exists
InitDrift ==
    /\ transactions = << >>
    /\ accounts = [a \in AccountIds |->
                    [user |-> IF a = "a3" THEN "u2" ELSE "u1", balance |-> opening_balance[a]]]
    /\ budgets = [b \in BudgetIds |->
                    [user |-> IF b = "b4" THEN "u2" ELSE "u1",
                     category |-> IF b = "b3" THEN "Entertainment" ELSE "Groceries",
                     start_date |-> IF b = "b2" THEN 2 ELSE 1,
                     end_date |-> IF b = "b1" THEN 1 ELSE 2,
                     current_expense |-> 7]]
    /\ transaction_old_values = << >>
    /\ response = success_response("")
    /\ failed = "none"
    /\ full_updates = 0
    /\ procs = [p \in ProcIds |-> Idle]
    /\ recurring = << >>
    /\ stdout = NoReport

\* entries on two accounts, every category, dates in either window
DriftData ==
    Payload({"u1"}, {"a1", "a2"}, TRANSACTION_TYPE_CHOICES, {50},
            {<<"Groceries", 1>>, <<"Groceries", 2>>, <<"Entertainment", 1>>, <<NoCategory, 1>>})

NextDrift ==
    \/ Create(DriftData, NoFault)
    \/ Update(DriftData, NoFault)
    \/ Destroy(NoFault)

SpecDrift == InitDrift /\ [][NextDrift]_vars

\* one stored expense of 50 for Groceries dated day 2 on a1, with the
\* aggregates its creation left, and two workers that update it
InitUpdates ==
    /\ transactions = (1 :> [user |-> "u1", account |-> "a1", category |-> "Groceries",
                             type |-> "expense", amount |-> 50, date |-> 2])
    /\ accounts = [a \in AccountIds |->
                    [user |-> IF a = "a3" THEN "u2" ELSE "u1",
                     balance |-> IF a = "a1" THEN opening_balance[a] - 50
                                 ELSE opening_balance[a]]]
    /\ budgets = [b \in BudgetIds |->
                    [user |-> IF b = "b4" THEN "u2" ELSE "u1",
                     category |-> IF b = "b2" THEN "Entertainment" ELSE "Groceries",
                     start_date |-> 1,
                     end_date |-> IF b = "b1" THEN 1 ELSE 2,
                     current_expense |-> IF b = "b3" THEN 50 ELSE 0]]
    /\ transaction_old_values = << >>
    /\ response = success_response("Transaction created successfully")
    /\ failed = "none"
    /\ full_updates = 0
    /\ procs = [p \in ProcIds |-> Idle]
    /\ recurring = << >>
    /\ stdout = NoReport

NextUpdates ==
    \/ \E self \in ProcIds, pk \in Pks, data \in ConcData, with_account \in BOOLEAN :
            get_object(self, pk, data, with_account)
    \/ \E self \in ProcIds : pre_save(self)
    \/ \E self \in ProcIds : write(self)
    \/ \E self \in ProcIds : old_account(self)
    \/ \E self \in ProcIds : old_account_save(self)
    \/ \E self \in ProcIds : account(self)
    \/ \E self \in ProcIds : account_save(self)
    \/ \E self \in ProcIds : aggregate(self)
    \/ \E self \in ProcIds : budget_save(self)
    \/ \E self \in ProcIds : return(self)

SpecUpdates == InitUpdates /\ [][NextUpdates]_vars

\* runs of the command one after the other, each of which may be killed or
\* may fail to create an entry
NextRerun ==
    \/ \E self \in ProcIds, today \in {1, 2}, dry_run \in BOOLEAN :
            sweep_alone(self, today, dry_run)
    \/ \E self \in ProcIds : sweep_next(self)
    \/ \E self \in ProcIds : insert(self)
    \/ \E self \in ProcIds : insert_fails(self)
    \/ \E self \in ProcIds : account_save(self)
    \/ \E self \in ProcIds : aggregate(self)
    \/ \E self \in ProcIds : budget_save(self)
    \/ \E self \in ProcIds : recurring_save(self)
    \/ \E self \in ProcIds : crash(self)

SpecRerun == InitSweeps /\ [][NextRerun]_vars

\* entries of two owners in the same category and windows
OwnerData ==
    Payload({"u1", "u2"}, {"a1", "a3"}, TRANSACTION_TYPE_CHOICES, {50},
            {<<"Groceries", 1>>, <<"Groceries", 2>>})

NextOwners ==
    \/ Create(OwnerData, NoFault)
    \/ Update(OwnerData, NoFault)
    \/ Destroy(NoFault)

SpecOwners == InitDrift /\ [][NextOwners]_vars

\* entries on two accounts of one owner, in both Groceries windows
CascadeData ==
    Payload({"u1"}, {"a1", "a2"}, TRANSACTION_TYPE_CHOICES, {50},
            {<<"Groceries", 1>>, <<"Groceries", 2>>})

NextCascade ==
    \/ Create(CascadeData, NoFault)
    \/ Update(CascadeData, NoFault)
    \/ Destroy(NoFault)
    \/ \E a \in AccountIds : account_destroy(a, "u1")

SpecCascade == Init /\ [][NextCascade]_vars

\* the dates on which the command is run
Dates == {1, 2, 31}

\* what the owner posts to /recurring-transactions/
TemplateData ==
    {[user |-> "u1", account |-> "a1", category |-> "Groceries", amount |-> x[4],
      frequency |-> x[1], start_date |-> x[2], end_date |-> x[3]] :
        x \in {<<"daily", 1, NoDate, 50>>, <<"monthly", 1, NoDate, 80>>,
                <<"daily", 2, NoDate, 80>>, <<"daily", 1, 1, 50>>}}

NextSched ==
    \/ \E data \in TemplateData : recurring_create(data)
    \/ \E pk \in RecurringPks, data \in TemplateData : recurring_update(pk, data)
    \/ \E pk \in RecurringPks : recurring_destroy(pk)
    \/ \E today \in Dates, dry_run \in BOOLEAN : handle(today, dry_run)

SpecSched == Init /\ [][NextSched]_vars

\* the dates around every interval's boundary
DueDates == {1, 2, 3, 4, 7, 8, 9, 10, 30, 31, 32, 33, 34, 364, 365, 366, 367, 368, 369}

\* one stored template of any frequency, not yet processed or processed on
\* day 1 or day 3
InitDue ==
    /\ InitLedger
    /\ \E f \in FREQUENCY_CHOICES, s \in {1, 2}, l \in {NoDate, 1, 3} :
          recurring = (1 :> [user |-> "u1", account |-> "a1", category |-> "Groceries",
                             type |-> "expense", amount |-> 50, frequency |-> f,
                             start_date |-> s, end_date |-> NoDate,
                             last_processed_date |-> l])

NextDue == \E today \in DueDates : handle(today, TRUE)

SpecDue == InitDue /\ [][NextDue]_vars

TypeOK ==
    /\ DOMAIN transactions \subseteq Pks
    /\ \A p \in DOMAIN transactions :
        /\ transactions[p].user \in Users
        /\ transactions[p].account \in AccountIds
        /\ transactions[p].type \in TRANSACTION_TYPE_CHOICES
        /\ transactions[p].amount \in Amounts
    /\ failed \in {"none", "create", "update", "delete"}
    /\ full_updates \in 0..MaxFullUpdates

\* ------------------------------------------------ reference aggregates
\* What the ledger alone says the derived values are.
RECURSIVE Total(_, _)
Total(f, S) ==
    IF S = {} THEN 0
    ELSE LET x == CHOOSE y \in S : TRUE IN f[x] + Total(f, S \ {x})

SignedAmount(t) == IF t.type = "income" THEN t.amount ELSE 0 - t.amount

LedgerBalance(txs, a) ==
    opening_balance[a]
    + Total([p \in DOMAIN txs |-> SignedAmount(txs[p])], {p \in DOMAIN txs : txs[p].account = a})

InWindow(t, b) ==
    /\ t.type = "expense"
    /\ t.user = b.user
    /\ t.category = b.category
    /\ b.start_date <= t.date
    /\ t.date <= b.end_date

WindowSum(txs, b) ==
    Total([p \in DOMAIN txs |-> txs[p].amount], {p \in DOMAIN txs : InWindow(txs[p], b)})

Kept(p) == p \in DOMAIN transactions /\ p \in DOMAIN transactions'
Added(p) == p \notin DOMAIN transactions /\ p \in DOMAIN transactions'

\* the budgets of an entry's owner and category whose window holds its date
BudgetsOf(t) ==
    {b \in BudgetIds : /\ budgets[b].user = t.user
                       /\ budgets[b].category = t.category
                       /\ budgets[b].start_date <= t.date
                       /\ t.date <= budgets[b].end_date}

\* ------------------------------------------------------------- claims

\* C1: balance invariant - after any sequence of entry create / update /
\* delete requests every account's balance is its opening value plus the
\* income amounts minus the expense amounts of the entries that reference it.
C1_BalanceInvariant ==
    \A a \in AccountIds : accounts[a].balance = LedgerBalance(transactions, a)

\* C2: budget invariant - after any sequence of entry create / update /
\* delete requests every budget's current_expense is the sum of the amounts of
\* its owner's expense entries of its category dated inside its window.
C2_BudgetInvariant ==
    \A b \in BudgetIds : budgets[b].current_expense = WindowSum(transactions, budgets[b])

C2_Witness ==
    /\ response.message = "Transaction updated successfully"
    /\ \E p, q \in DOMAIN transactions :
        /\ p # q
        /\ InWindow(transactions[p], budgets["b1"])
        /\ InWindow(transactions[q], budgets["b1"])
        /\ transactions[p].amount # transactions[q].amount
        /\ budgets["b1"].current_expense = transactions[p].amount + transactions[q].amount

\* C3: atomicity of the save path - when an aggregate step of a create or an
\* update raises, no balance, no current_expense and no ledger row differs
\* from its value before the request.
C3_SaveAtomicity ==
    [][(failed = "none" /\ failed' \in {"create", "update"})
        => (transactions' = transactions /\ accounts' = accounts /\ budgets' = budgets)]_vars

\* C4: a create or update whose aggregate step raised is answered with a
\* failure, never with success.
C4_FailureSurfaces ==
    failed \in {"create", "update"} => ~response.success

\* C5: atomicity of the delete path - when reverting the balance or
\* recomputing a matching budget raises during a delete, the entry still
\* exists and no balance and no current_expense has changed.
C5_DeleteAtomicity ==
    [][(failed = "none" /\ failed' = "delete")
        => (/\ DOMAIN transactions' = DOMAIN transactions
            /\ accounts' = accounts
            /\ budgets' = budgets)]_vars

\* C6: a create changes the entry's account balance by exactly +amount
\* (income) or -amount (expense), and for a categorized expense every budget
\* of the owner and category whose window holds the date then equals its
\* window sum, which is at least the entry's amount.
C6_CreateEffect ==
    [][\A p \in Pks : Added(p) =>
        LET e == transactions'[p] IN
        /\ accounts'[e.account].balance = accounts[e.account].balance + SignedAmount(e)
        /\ (e.type = "expense" /\ e.category # NoCategory) =>
            \A b \in BudgetsOf(e) :
                /\ budgets'[b].current_expense = WindowSum(transactions', budgets[b])
                /\ budgets'[b].current_expense >= e.amount]_vars

\* Scenario A: balance 1000, expense 50 on Groceries gives 950 and 50
C6_Witness ==
    /\ response.message = "Transaction created successfully"
    /\ DOMAIN transactions = {1}
    /\ transactions[1].type = "expense" /\ transactions[1].amount = 50
    /\ transactions[1].category = "Groceries" /\ transactions[1].date = 1
    /\ accounts["a1"].balance = 950
    /\ budgets["b1"].current_expense = 50
    /\ budgets["b3"].current_expense = 50

\* C7: an update of the amount alone, a to a2, changes the account balance by
\* the signed difference and sets every matching budget to its new window
\* sum, whether or not the saved entry already holds a loaded account.
C7_AmountUpdate ==
    [][\A p \in Pks :
        (/\ Kept(p)
         /\ transactions'[p].amount # transactions[p].amount
         /\ transactions'[p] = [transactions[p] EXCEPT !.amount = transactions'[p].amount])
        => LET old == transactions[p]
               new == transactions'[p]
           IN  /\ accounts'[new.account].balance =
                    accounts[new.account].balance - SignedAmount(old) + SignedAmount(new)
               /\ (new.type = "expense" /\ new.category # NoCategory) =>
                    \A b \in BudgetsOf(new) :
                        budgets'[b].current_expense = WindowSum(transactions', budgets[b])]_vars

\* C8: an update of an expense's category alone leaves every balance
\* unchanged, and the budgets of the old and of the new category whose window
\* holds the date equal their window sums afterwards.
C8_CategoryUpdate ==
    [][\A p \in Pks :
        (/\ Kept(p)
         /\ transactions[p].type = "expense"
         /\ transactions[p].category \in CategoryIds
         /\ transactions'[p].category \in CategoryIds
         /\ transactions'[p].category # transactions[p].category
         /\ transactions'[p] = [transactions[p] EXCEPT !.category = transactions'[p].category])
        => /\ \A a \in AccountIds : accounts'[a].balance = accounts[a].balance
           /\ \A b \in BudgetsOf(transactions[p]) \cup BudgetsOf(transactions'[p]) :
                budgets'[b].current_expense = WindowSum(transactions', budgets[b])]_vars

\* C9: create followed by delete is a round trip - once every created entry
\* has been deleted again (with any updates in between) every balance and
\* every current_expense is back at its value before the creates.
C9_RoundTrip ==
    (response.message = "Transaction deleted successfully" /\ DOMAIN transactions = {})
        => /\ \A a \in AccountIds : accounts[a].balance = opening_balance[a]
           /\ \A b \in BudgetIds : budgets[b].current_expense = 0

\* C10: an update that moves an entry from account A1 to account A2 takes the
\* old entry's signed amount out of A1, puts the new entry's signed amount
\* into A2 and leaves every other balance unchanged.
C10_AccountMove ==
    [][\A p \in Pks :
        (Kept(p) /\ transactions'[p].account # transactions[p].account)
        => LET old == transactions[p]
               new == transactions'[p]
           IN  /\ accounts'[old.account].balance = accounts[old.account].balance - SignedAmount(old)
               /\ accounts'[new.account].balance = accounts[new.account].balance + SignedAmount(new)
               /\ \A a \in AccountIds \ {old.account, new.account} :
                    accounts'[a].balance = accounts[a].balance]_vars

\* an expense of 50 created on a1 and then moved to a2 as an expense of 80
C10_Witness ==
    /\ response.message = "Transaction updated successfully"
    /\ full_updates = 1
    /\ DOMAIN transactions = {1}
    /\ transactions[1].account = "a2"
    /\ transactions[1].type = "expense" /\ transactions[1].amount = 80
    /\ accounts["a1"].balance = opening_balance["a1"]
    /\ accounts["a2"].balance = opening_balance["a2"] - 80

\* every worker has been answered
AllDone == \A p \in ProcIds : procs[p].pc = "done"

\* C11: no lost update on balances - when two requests that touch the same
\* account run concurrently and both complete (none of them a full-payload
\* update), every balance is its opening value plus the signed amounts of the
\* stored entries, whatever the interleaving of their reads and writes.
C11_NoLostUpdate ==
    (AllDone /\ full_updates = 0) =>
        \A a \in AccountIds : accounts[a].balance = LedgerBalance(transactions, a)

\* C12: no stale budget under concurrency - when two requests that affect the
\* same budget run concurrently and both complete, the budget's
\* current_expense is the window sum over the entries stored afterwards.
C12_NoStaleBudget ==
    AllDone => \A b \in BudgetIds : budgets[b].current_expense = WindowSum(transactions, budgets[b])

\* an update is being served and no other request is
UpdateAlone ==
    \E q \in ProcIds :
        /\ procs[q].op = "update" /\ procs[q].pc # "done"
        /\ \A r \in ProcIds \ {q} : procs[r].pc \in {"idle", "done"}

\* C13: a reader of the balances that runs while an entry update is being
\* served sees, for every account, the balance that the stored ledger implies
\* (the value before the update while the old row is stored, the value after
\* it once the new row is stored), never a state in between.
C13_ReaderConsistency ==
    [][(UpdateAlone /\ procs' = procs /\ response' # response /\ response'.message = "Success")
        => \A a \in DOMAIN response'.data :
                response'.data[a] = LedgerBalance(transactions, a)]_vars

\* ------------------------------------------------ scheduler claims
\* the due-date rule as the specification words it
Interval(frequency) ==
    CASE frequency = "daily" -> 1
      [] frequency = "weekly" -> 7
      [] frequency = "monthly" -> 30
      [] frequency = "yearly" -> 365

Due(row, asOf) ==
    \/ row.last_processed_date = NoDate /\ asOf >= row.start_date
    \/ row.last_processed_date # NoDate /\ asOf >= row.last_processed_date + Interval(row.frequency)

\* the template has started and has not ended on that date
InRange(row, asOf) ==
    /\ row.start_date <= asOf
    /\ row.end_date = NoDate \/ row.end_date >= asOf

KeptTemplates == DOMAIN recurring \cap DOMAIN recurring'
Moved == {r \in KeptTemplates : recurring'[r].last_processed_date # recurring[r].last_processed_date}
AddedPks == {p \in Pks : Added(p)}

\* a step of the management command: it printed a new report, moved a
\* watermark or added an entry (no request of this specification does)
Sweep == stdout' # stdout \/ Moved # {} \/ AddedPks # {}
LiveSweep == Sweep /\ ~stdout'.dry_run

\* the entry is the materialization of the template on that date
Materializes(e, row, asOf) ==
    /\ e.user = row.user /\ e.account = row.account /\ e.category = row.category
    /\ e.type = row.type /\ e.amount = row.amount /\ e.date = asOf

\* C14: idempotent sweep - a live run creates one entry per processed
\* template, and a second live run for the same date right after it creates
\* no entry, processes no template and counts every template it visits as
\* skipped.
C14_IdempotentSweep ==
    [][LiveSweep =>
        LET today == stdout'.today
            visited == recurring_transactions(recurring', today)
            again == process([db |-> Store', recurring |-> recurring', lines |-> {},
                              processed_count |-> 0, skipped_count |-> 0],
                             visited, today, FALSE)
        IN  /\ Cardinality(AddedPks) = stdout'.processed_count
            /\ Cardinality(AddedPks) <= Cardinality(DOMAIN recurring)
            /\ again.db.transactions = transactions'
            /\ again.recurring = recurring'
            /\ again.processed_count = 0
            /\ again.skipped_count = Cardinality(visited)]_vars

\* Scenario E: monthly template, start day 1, never processed; the run on
\* day 1 made one entry, the second run on day 1 skipped the template
C14_Witness ==
    /\ stdout = [today |-> 1, dry_run |-> FALSE, lines |-> {}, processed_count |-> 0,
                 skipped_count |-> 1]
    /\ DOMAIN recurring = {1}
    /\ recurring[1].frequency = "monthly" /\ recurring[1].start_date = 1
    /\ recurring[1].last_processed_date = 1
    /\ DOMAIN transactions = {1}
    /\ transactions[1].date = 1 /\ transactions[1].amount = recurring[1].amount

\* C15: a template's last_processed_date never decreases and never returns
\* to unset, whatever runs of the command (on any dates, in any order) and
\* owner edits of the template happen.
C15_WatermarkMonotone ==
    [][\A r \in KeptTemplates :
        recurring'[r].last_processed_date >= recurring[r].last_processed_date]_vars

\* processed on day 1 and on day 2, then run for day 1 again and edited
C15_Witness ==
    /\ \E r \in DOMAIN recurring :
        /\ recurring[r].last_processed_date = 2
        /\ recurring[r].start_date = 2
    /\ \E p, q \in DOMAIN transactions : transactions[p].date = 1 /\ transactions[q].date = 2
    /\ stdout.today = 1 /\ ~stdout.dry_run
    /\ response.message = "Recurring transaction updated successfully"

\* C16: the due-date rule - for a template in range, the command counts it
\* as processed exactly when (never processed and asOf >= start_date) or
\* (processed and asOf >= last_processed_date + 1, 7, 30 or 365 days for
\* daily, weekly, monthly, yearly), and as skipped otherwise.
C16_DueRule ==
    (stdout.today # NoDate /\ InRange(recurring[1], stdout.today)) =>
        /\ stdout.processed_count = (IF Due(recurring[1], stdout.today) THEN 1 ELSE 0)
        /\ stdout.skipped_count = 1 - stdout.processed_count
        /\ should_process_today(recurring[1], stdout.today) = Due(recurring[1], stdout.today)

\* a yearly template processed on day 3 is due on day 368
C16_Witness ==
    /\ recurring[1].frequency = "yearly" /\ recurring[1].last_processed_date = 3
    /\ stdout.today = 368 /\ stdout.processed_count = 1

\* C17: a run for date d creates no entry for, and leaves unchanged, every
\* template with start_date > d or a set end_date < d; every template in
\* range is evaluated by the due-date rule (processed when due, skipped when
\* not, and counted).
C17_RangeFilter ==
    [][Sweep =>
        LET d == stdout'.today
            inRange == {r \in DOMAIN recurring : InRange(recurring[r], d)}
            due == {r \in inRange : Due(recurring[r], d)}
        IN  /\ recurring' = [r \in DOMAIN recurring |->
                                IF r \in due /\ ~stdout'.dry_run
                                THEN [recurring[r] EXCEPT !.last_processed_date = d]
                                ELSE recurring[r]]
            /\ Cardinality(AddedPks) = (IF stdout'.dry_run THEN 0 ELSE Cardinality(due))
            /\ stdout'.processed_count = Cardinality(due)
            /\ stdout'.skipped_count = Cardinality(inRange \ due)]_vars

\* a live run on day 2 with one template that ended on day 1 and one that
\* started on day 2
C17_Witness ==
    /\ stdout.today = 2 /\ ~stdout.dry_run
    /\ stdout.processed_count = 1 /\ stdout.skipped_count = 0
    /\ DOMAIN recurring = {1, 2}
    /\ \E r \in {1, 2} :
        /\ recurring[r].end_date = 1 /\ recurring[r].last_processed_date = NoDate
        /\ recurring[3 - r].start_date = 2 /\ recurring[3 - r].last_processed_date = 2
    /\ DOMAIN transactions = {1} /\ transactions[1].date = 2

\* C18: materialization - a live run for date d creates for each due template
\* exactly one entry with the template's owner, account, category, type and
\* amount and with date d, and every processed template then has
\* last_processed_date = d.
C18_Materialization ==
    [][LiveSweep =>
        LET d == stdout'.today
            due == {r \in DOMAIN recurring : InRange(recurring[r], d) /\ Due(recurring[r], d)}
        IN  /\ Cardinality(AddedPks) = Cardinality(due)
            /\ \A r \in due :
                /\ recurring'[r].last_processed_date = d
                /\ \E p \in AddedPks : Materializes(transactions'[p], recurring[r], d)
            /\ \A p \in AddedPks : \E r \in due : Materializes(transactions'[p], recurring[r], d)
            /\ \A p \in DOMAIN transactions : transactions'[p] = transactions[p]]_vars

\* two different templates processed by one run on day 2
C18_Witness ==
    /\ stdout = [today |-> 2, dry_run |-> FALSE, lines |-> {1, 2}, processed_count |-> 2,
                 skipped_count |-> 0]
    /\ DOMAIN recurring = {1, 2}
    /\ recurring[1].amount # recurring[2].amount
    /\ recurring[1].last_processed_date = 2 /\ recurring[2].last_processed_date = 2
    /\ DOMAIN transactions = {1, 2}
    /\ transactions[1].date = 2 /\ transactions[2].date = 2
    /\ transactions[1].amount # transactions[2].amount

\* C19: entries created by the command take the receivers' path - after a
\* live run the account of every materialized entry has its opening balance
\* plus the signed amounts of its entries, and every budget matching a
\* materialized categorized expense has its window sum.
C19_SweepAggregates ==
    \A p \in DOMAIN transactions :
        LET e == transactions[p] IN
        /\ accounts[e.account].balance = LedgerBalance(transactions, e.account)
        /\ (e.type = "expense" /\ e.category # NoCategory) =>
            \A b \in BudgetsOf(e) : budgets[b].current_expense = WindowSum(transactions, budgets[b])

\* runs on day 1 and day 2 materialized an expense of 50 and one of 80
C19_Witness ==
    /\ ~stdout.dry_run /\ stdout.processed_count >= 1
    /\ DOMAIN transactions = {1, 2}
    /\ transactions[1].date = 1 /\ transactions[1].amount = 50
    /\ transactions[2].date = 2 /\ transactions[2].amount = 80
    /\ accounts["a1"].balance = opening_balance["a1"] - 130
    /\ budgets["b1"].current_expense = 50
    /\ budgets["b3"].current_expense = 130

\* C20: a dry run writes nothing - the entries, every template (its
\* last_processed_date included), every balance and every current_expense
\* are the same after it as before.
C20_DryRunFrame ==
    [][(stdout'.dry_run /\ (stdout' # stdout \/ Moved # {} \/ AddedPks # {})) =>
        /\ transactions' = transactions
        /\ recurring' = recurring
        /\ accounts' = accounts
        /\ budgets' = budgets]_vars

\* a dry run on day 2 reported two due templates and left them unprocessed
C20_Witness ==
    /\ stdout = [today |-> 2, dry_run |-> TRUE, lines |-> {1, 2}, processed_count |-> 2,
                 skipped_count |-> 0]
    /\ transactions = << >>
    /\ \A r \in DOMAIN recurring : recurring[r].last_processed_date = NoDate
    /\ \A a \in AccountIds : accounts[a].balance = opening_balance[a]

\* C21: dry run and live run agree - from one store state and one date, the
\* templates a dry run reports as would-be-processed are the templates a
\* live run processes (the due templates in range, whose watermark the live
\* run moves), and the processed and skipped counts of the two runs are equal.
C21_DryLiveAgree ==
    [][Sweep =>
        LET today == stdout'.today
            queue == recurring_transactions(recurring, today)
            start == [db |-> Store, recurring |-> recurring, lines |-> {},
                      processed_count |-> 0, skipped_count |-> 0]
            due == {r \in DOMAIN recurring :
                        InRange(recurring[r], today) /\ Due(recurring[r], today)}
            report(st) == [lines |-> st.lines, processed_count |-> st.processed_count,
                           skipped_count |-> st.skipped_count]
        IN  \A dry \in {report(process(start, queue, today, TRUE))} :
                /\ dry.lines = due
                /\ dry = report(stdout')
                /\ ~stdout'.dry_run => Moved = dry.lines
                /\ Cardinality(due) <= Cardinality(Pks \ DOMAIN transactions) =>
                        \A live \in {process(start, queue, today, FALSE)} :
                            /\ report(live) = dry
                            /\ {r \in DOMAIN recurring :
                                    live.recurring[r] # recurring[r]} = dry.lines]_vars

\* a live run on day 31 processed the monthly template last processed on
\* day 1 and skipped the daily template that starts on day 2 and was
\* processed on day 31 already
C21_Witness ==
    /\ stdout = [today |-> 31, dry_run |-> FALSE, lines |-> {1}, processed_count |-> 1,
                 skipped_count |-> 1]
    /\ DOMAIN recurring = {1, 2}
    /\ recurring[1].frequency = "monthly" /\ recurring[1].last_processed_date = 31
    /\ recurring[2].frequency = "daily" /\ recurring[2].last_processed_date = 31

\* C22: concurrent sweeps - two runs of the command for the same date,
\* interleaved in any way, never both create an entry for the same template:
\* no two stored entries are the materialization of one template on one date.
C22_NoDoubleMaterialization ==
    \A p, q \in DOMAIN transactions :
        (p # q /\ transactions[p].date = transactions[q].date) =>
            \A r \in DOMAIN recurring :
                ~(/\ Materializes(transactions[p], recurring[r], transactions[p].date)
                  /\ Materializes(transactions[q], recurring[r], transactions[q].date))

\* C23: cross-owner references are rejected - every stored entry references
\* an account of its own owner (a request that names another owner's account
\* is refused and writes nothing), and no request of owner u1 changes the
\* balance of an account that belongs to another owner.
C23_OwnerIsolation ==
    /\ \A p \in DOMAIN transactions :
            accounts[transactions[p].account].user = transactions[p].user
    /\ \A a \in AccountIds :
            accounts[a].user # "u1" => accounts[a].balance = opening_balance[a]

\* C28: amounts are non-negative - every stored entry and every stored
\* template has amount >= 0 (a create or update with a negative amount is
\* rejected).
C28_AmountNonNegative ==
    /\ \A p \in DOMAIN transactions : transactions[p].amount >= 0
    /\ \A r \in DOMAIN recurring : recurring[r].amount >= 0

\* a budget request: the budgets changed and the entries did not (every
\* entry request of these specifications adds or removes an entry)
BudgetRequest == budgets' # budgets /\ transactions' = transactions

\* C24: the hooks are the only writers of the derived values - a budget
\* create or update request neither sets nor changes current_expense (a new
\* budget starts from the default or from its window sum, an edited budget
\* keeps its value unless the server recomputes it), and no request changes
\* an account balance except through an entry.
C24_DerivedReadOnly ==
    [][BudgetRequest =>
        /\ accounts' = accounts
        /\ \A b \in DOMAIN budgets' :
            \/ budgets'[b].current_expense = WindowSum(transactions', budgets'[b])
            \/ IF b \in DOMAIN budgets
               THEN budgets'[b].current_expense = budgets[b].current_expense
               ELSE budgets'[b].current_expense = 0]_vars

\* C25: the budget invariant across budget requests - right after a budget
\* is created, or its category, start_date or end_date is edited,
\* current_expense is the sum of the owner's expense entries of the budget's
\* category dated inside its window.
C25_BudgetInvariantOnEdit ==
    [][BudgetRequest =>
        \A b \in DOMAIN budgets' :
            (b \notin DOMAIN budgets \/ budgets'[b] # budgets[b]) =>
                budgets'[b].current_expense = WindowSum(transactions', budgets'[b])]_vars

\* ------------------------------------------------ footprint of a request
\* the budgets an entry counts in: none for an income entry, none for an
\* entry without category
ExpenseBudgets(t) == IF t.type = "expense" THEN BudgetsOf(t) ELSE {}

\* the step adds, removes or rewrites entry p and no other entry
Touches(p) ==
    \A q \in Pks \ {p} :
        /\ q \in DOMAIN transactions <=> q \in DOMAIN transactions'
        /\ q \in DOMAIN transactions => transactions'[q] = transactions[q]

Written(p) ==
    \/ Added(p)
    \/ p \in DOMAIN transactions /\ p \notin DOMAIN transactions'
    \/ Kept(p) /\ transactions'[p] # transactions[p]

OldAndNew(p) ==
    (IF p \in DOMAIN transactions THEN {transactions[p]} ELSE {})
        \cup (IF p \in DOMAIN transactions' THEN {transactions'[p]} ELSE {})

\* C26: frame of an entry request - creating, updating or deleting an entry
\* leaves unchanged the balance of every account that is neither its old nor
\* its new account and the current_expense of every budget that matches
\* neither its old nor its new (category, date) as an expense; a request on
\* an income entry or on an entry without category changes no budget.
C26_Frame ==
    [][\E p \in Pks :
        /\ Touches(p)
        /\ \A a \in AccountIds \ {t.account : t \in OldAndNew(p)} :
                accounts'[a] = accounts[a]
        /\ \A b \in BudgetIds \ UNION {ExpenseBudgets(t) : t \in OldAndNew(p)} :
                budgets'[b] = budgets[b]]_vars

\* an income entry and an uncategorized expense were created and one of them
\* updated: every budget still holds what it held before the first request,
\* and the other owner's account its opening balance
C26_Witness ==
    /\ response.message = "Transaction updated successfully"
    /\ DOMAIN transactions = {1, 2}
    /\ transactions[1].type = "income" /\ transactions[1].category = "Groceries"
    /\ transactions[2].type = "expense" /\ transactions[2].category = NoCategory
    /\ transactions[1].account # transactions[2].account
    /\ \A b \in BudgetIds : budgets[b].current_expense = 7
    /\ accounts["a3"].balance = opening_balance["a3"]

\* C29: recalculation is a full re-aggregation - whatever current_expense
\* held before, after a request wrote an expense entry every budget that the
\* old or the new entry counts in holds the sum of its owner's expense
\* entries of its category dated from start_date to end_date, both bounds
\* included, and 0 when there are none.
C29_FullReaggregation ==
    [][\A p \in Pks :
        Written(p) =>
            \A b \in UNION {ExpenseBudgets(t) : t \in OldAndNew(p)} :
                budgets'[b].current_expense = WindowSum(transactions', budgets'[b])]_vars

\* the only entry, an expense for Groceries dated day 1, was deleted: the
\* budget of day 1 went from the drifted 7 to 0, the budget of day 2, which
\* never matched, still holds 7
C29_Witness ==
    /\ response.message = "Transaction deleted successfully"
    /\ transactions = << >>
    /\ budgets["b1"].current_expense = 0
    /\ budgets["b2"].current_expense = 7
    /\ budgets["b3"].current_expense = 7

\* C30: an update of a categorized expense's date alone, from a date inside
\* budget B1's window and outside B2's to a date inside B2's and outside
\* B1's, recomputes both budgets - B1 no longer counts the entry, B2 counts
\* it - and leaves the account balance unchanged.
C30_DateMove ==
    [][\A p \in Pks :
        (/\ Kept(p)
         /\ transactions[p].type = "expense"
         /\ transactions[p].category \in CategoryIds
         /\ transactions'[p].date # transactions[p].date
         /\ transactions'[p] = [transactions[p] EXCEPT !.date = transactions'[p].date])
        => \A B1 \in BudgetsOf(transactions[p]) \ BudgetsOf(transactions'[p]),
              B2 \in BudgetsOf(transactions'[p]) \ BudgetsOf(transactions[p]) :
                /\ budgets'[B1].current_expense = WindowSum(transactions', budgets'[B1])
                /\ budgets'[B2].current_expense = WindowSum(transactions', budgets'[B2])
                /\ accounts'[transactions[p].account].balance =
                        accounts[transactions[p].account].balance]_vars

\* C27: overlapping budgets - when several budgets of one owner share a
\* category and their windows overlap, a request that creates, updates or
\* deletes a categorized expense whose date lies in more than one of the
\* windows recomputes every one of them: afterwards each of these budgets
\* equals its own window sum.
C27_OverlappingBudgets ==
    [][\A p \in Pks :
        Written(p) =>
            \A t \in OldAndNew(p) :
                (t.type = "expense" /\ Cardinality(BudgetsOf(t)) > 1) =>
                    \A b \in BudgetsOf(t) :
                        budgets'[b].current_expense = WindowSum(transactions', budgets'[b])]_vars

\* an expense of 80 dated day 2 lies in the long Groceries window only, the
\* expense of 50 dated day 1 created after it lies in both windows
C27_Witness ==
    /\ response.message = "Transaction created successfully"
    /\ DOMAIN transactions = {1, 2}
    /\ \A p \in {1, 2} : transactions[p].type = "expense" /\ transactions[p].category = "Groceries"
    /\ transactions[1].date = 2 /\ transactions[1].amount = 80
    /\ transactions[2].date = 1 /\ transactions[2].amount = 50
    /\ BudgetsOf(transactions[2]) = {"b1", "b3"}
    /\ budgets["b1"].current_expense = 50
    /\ budgets["b3"].current_expense = 130

\* C31: an update of a categorized entry's kind - from expense (amount a) to
\* income (amount a2) it raises the account balance by a + a2 and every
\* budget that matched the entry stops counting it; from income to expense
\* it lowers the balance by a + a2 and every matching budget counts a2.
C31_KindUpdate ==
    [][\A p \in Pks :
        (/\ Kept(p)
         /\ transactions[p].category \in CategoryIds
         /\ transactions'[p].type # transactions[p].type
         /\ transactions'[p] = [transactions[p] EXCEPT !.type = transactions'[p].type,
                                                      !.amount = transactions'[p].amount])
        => LET old == transactions[p]
               new == transactions'[p]
               sum == old.amount + new.amount
           IN  /\ accounts'[new.account].balance =
                    (IF new.type = "income" THEN accounts[new.account].balance + sum
                     ELSE accounts[new.account].balance - sum)
               /\ \A b \in BudgetsOf(old) :
                    budgets'[b].current_expense = WindowSum(transactions', budgets'[b])]_vars

\* C32: saving an existing entry again without changing any field changes no
\* aggregate - every account balance and every current_expense is the same
\* after the save as before it.
C32_ResaveNoOp ==
    [][(transactions' = transactions /\ response'.message = "Transaction updated successfully")
        => accounts' = accounts /\ budgets' = budgets]_vars

\* C33: the old values of interleaved updates - when updates of one entry
\* interleave, the after-save hook of each of them finds its old values in
\* the shared map and goes on to revert and apply; no update leaves the hook
\* without its aggregate changes.
C33_OldValuesFound ==
    [][\A self \in ProcIds :
        (procs[self].pc = "old_account" /\ procs'[self].pc # "old_account")
            => /\ procs'[self].pc = "old_account_save"
               /\ procs'[self].old_values # NoOldValues]_vars

\* C34: the watermark alone prevents duplicates across an interrupted run -
\* when a live run was killed after it created a template's entry and before
\* it stored last_processed_date, the runs that follow it create no second
\* entry for that template and date: at most one stored entry is the
\* materialization of a template on a date.
C34_RerunAfterCrash ==
    (\E q \in ProcIds : procs[q].pc = "crashed") =>
        \A r \in DOMAIN recurring, d \in {1, 2} :
            Cardinality({p \in DOMAIN transactions :
                            Materializes(transactions[p], recurring[r], d)}) <= 1

\* C36: a failed creation leaves the watermark alone - when creating the
\* entry of a due template fails in a live run, nothing is written, the
\* template keeps its last_processed_date and is still due on that date; a
\* template that is not due is counted as skipped, the run goes on to the
\* next row and writes nothing.
C36_FailedCreate ==
    [][\A self \in ProcIds :
        /\ (procs[self].pc = "insert" /\ procs'[self].pc = "failed") =>
                /\ recurring' = recurring
                /\ transactions' = transactions
                /\ should_process_today(recurring'[procs[self].sweep.current],
                                        procs[self].sweep.today)
        /\ (procs'[self].sweep.skipped_count > procs[self].sweep.skipped_count) =>
                /\ procs'[self].pc = "sweep_next"
                /\ recurring' = recurring
                /\ transactions' = transactions]_vars

\* the first run failed to create the entry and wrote nothing; the run after
\* it found the template still due and processed it
C36_Witness ==
    /\ procs["h1"].pc = "failed"
    /\ procs["h2"].pc = "done"
    /\ DOMAIN transactions = {1}
    /\ recurring[1].last_processed_date = transactions[1].date
    /\ stdout.processed_count = 1 /\ ~stdout.dry_run

\* C35: no catch-up - one live run creates at most one entry per template it
\* processes, however many intervals have gone by since last_processed_date,
\* and a template processed on date d is not due on any date from d up to
\* but not including d + interval(frequency).
C35_NoCatchUp ==
    [][LiveSweep =>
        /\ Cardinality(AddedPks) <= Cardinality(Moved)
        /\ \A r \in Moved :
            LET row == recurring'[r]
                d == stdout'.today
            IN  /\ row.last_processed_date = d
                /\ \A later \in d .. (d + Interval(row.frequency) - 1) :
                        ~should_process_today(row, later)]_vars

\* a daily template processed on day 1 and next on day 31: thirty intervals
\* had gone by and the run of day 31 made one entry
C35_Witness ==
    /\ stdout.today = 31 /\ ~stdout.dry_run /\ stdout.lines = {1}
    /\ DOMAIN recurring = {1}
    /\ recurring[1].frequency = "daily" /\ recurring[1].last_processed_date = 31
    /\ DOMAIN transactions = {1, 2}
    /\ transactions[1].date = 1 /\ transactions[2].date = 31

\* the entries of one owner
OwnEntries(txs, user) == [p \in {q \in DOMAIN txs : txs[q].user = user} |-> txs[p]]

\* C37: owner isolation of budgets - a request on an entry owned by U writes
\* current_expense only of budgets owned by U, and the value written to a
\* budget is the window sum over the entries of the budget's owner alone, so
\* that it is the same whatever entries the other owners have.
C37_BudgetOwnerIsolation ==
    [][\A p \in Pks :
        Written(p) =>
            \A b \in BudgetIds :
                budgets'[b] # budgets[b] =>
                    /\ \A t \in OldAndNew(p) : budgets[b].user = t.user
                    /\ budgets'[b].current_expense =
                            WindowSum(OwnEntries(transactions', budgets'[b].user), budgets'[b])]_vars

\* both owners hold one Groceries expense of 50 dated day 1: u1's budget of
\* day 1 and u2's budget each count their owner's entry only, u1's budget of
\* day 2 was never written
C37_Witness ==
    /\ DOMAIN transactions = {1, 2}
    /\ transactions[1].user # transactions[2].user
    /\ \A p \in {1, 2} :
            /\ transactions[p].type = "expense" /\ transactions[p].amount = 50
            /\ transactions[p].category = "Groceries" /\ transactions[p].date = 1
    /\ budgets["b1"].current_expense = 50
    /\ budgets["b4"].current_expense = 50
    /\ budgets["b2"].current_expense = 7

====
